---- MODULE Spec2Model ----
(***************************************************************************)
(* Model of neothesia/src/scene/playing_scene/midi_player.rs:              *)
(* MidiPlayer (playback clock + output sink glue) and PlayAlong (the       *)
(* reconciliation of file note events with user key presses).              *)
(*                                                                         *)
(* Time.  Two clocks exist in the program and are kept apart here:         *)
(*   - `now`, the monotonic wall clock read by Instant::now(), counted in  *)
(*     ticks of 1/TicksPerMilli ms, so that Duration::as_millis really     *)
(*     truncates;                                                          *)
(*   - playback.running, a Duration counted in nanoseconds.                *)
(* midi_file::PlaybackState and OutputManager live in other crates of the  *)
(* repository; PlaybackState is modelled from the specification's          *)
(* PlaybackClock contract, the sink as the log of the calls it receives.   *)
(***************************************************************************)
EXTENDS Integers, Sequences, FiniteSets, TLC

\* ------------------------------------------------------------------ bounds
TicksPerMilli == 2        \* resolution of the wall clock `now`
MaxNowMillis == 510       \* the wall clock stops advancing here
MaxQueue == 2             \* user presses queued in a play-along session
MaxHeld == 1              \* user presses queued in a transport session
MaxRunningMillis == 50    \* update() is not called beyond this playback time
MaxSeeks == 1             \* seeks (rewind / set_percentage_time) per session
DeltaBits == 8            \* width of rewind's `delta` (an i64 in the code)

\* --------------------------------------------------------------- constants
LeewayMillis == 500       \* `elapsed.as_millis() > 500`
Percussion == 9           \* `event.channel == 9`
SpeedBuckets == 10        \* `delta / 10` and `speed_multiplier * 10.0`
NanosPerMilli == 1000000  \* Duration::from_millis

\* ----------------------------------------------------------------- inputs
\* user_keyboard_range: the standard 88 keys.
user_keyboard_range == 21..108
\* Note numbers used as inputs: two inside the range, one below it.
NoteIds == {60, 62, 20}
\* Wall-clock time that may pass between two calls, in ticks.
TickDeltas == {250 * TicksPerMilli, 250 * TicksPerMilli + 1}
\* The frames MidiPlayer::update is called with: the frame delta in
\* nanoseconds and target.config.speed_multiplier in hundredths (1.0, 0.25,
\* 0.05).
Frames ==
  { [delta |-> 0,        speed |-> 100],
    [delta |-> 10000005, speed |-> 100],
    [delta |-> 20000000, speed |-> 100],
    [delta |-> 50000005, speed |-> 25],
    [delta |-> 10000005, speed |-> 5] }
\* rewind(delta) arguments, in milliseconds.
RewindDeltas == {-15, 10}
\* The least value of rewind's signed `delta` (i64::MIN in the code).
MinDelta == -(2 ^ (DeltaBits - 1))
\* set_percentage_time(p) arguments, in percent.
Percentages == {-50, 50, 150}

\* midi_file.merged_track: timed events, offsets in nanoseconds from the start
\* of the timeline (lead-in included), in ascending order.
Track ==
  << [timestamp |-> 10000000, channel |-> 0, message |-> "NoteOn",  key |-> 60],
     [timestamp |-> 10000000, channel |-> 0, message |-> "NoteOn",  key |-> 62],
     [timestamp |-> 20000000, channel |-> 0, message |-> "NoteOff", key |-> 60],
     [timestamp |-> 20000000, channel |-> 9, message |-> "NoteOn",  key |-> 60],
     [timestamp |-> 30000000, channel |-> 0, message |-> "NoteOn",  key |-> 20],
     [timestamp |-> 30000000, channel |-> 0, message |-> "NoteOn",  key |-> 60],
     [timestamp |-> 40000000, channel |-> 0, message |-> "Other",   key |-> 0],
     [timestamp |-> 40000000, channel |-> 0, message |-> "NoteOff", key |-> 62] >>

VARIABLES
  now,              \* Instant::now(), in ticks
  playback,         \* MidiPlayer.playback : [running, is_paused, seen_events]
  play_along,       \* MidiPlayer.play_along : PlayAlong
  sink,             \* calls received by the OutputManager during the last operation
  delivered,        \* history: the events handed to midi_event() since
                    \* construction or the last seek, in order
  times_forwarded,  \* history: how often each event was handed to midi_event()
  ret,              \* result of the last operation
  last_call,        \* history: the last operation and its arguments
  seeks,            \* history: number of set_time calls so far
  alive             \* FALSE once the MidiPlayer has been dropped

vars == << now, playback, play_along, sink, delivered, times_forwarded, ret,
           last_call, seeks, alive >>

Max(a, b) == IF a >= b THEN a ELSE b

\* ---------------------------------------------------------------- PlayAlong

\* Duration::as_millis on a difference of two Instants: whole milliseconds.
as_millis(ticks) == ticks \div TicksPerMilli

\* piano_math::KeyboardRange::contains
contains(range, note_id) == note_id \in range

\* PlayAlong::new.  `consumed` is a history field: the user presses that
\* file note-ons have consumed during the current operation.
PlayAlong_new ==
  [ required_notes |-> {}, user_pressed_recently |-> <<>>, consumed |-> <<>> ]

\* Mutant of pop_expired: a press is dropped once its age reaches 500ms.
RECURSIVE pop_expired_at_leeway(_, _)
pop_expired_at_leeway(queue, instant) ==
  IF queue = <<>> THEN queue
  ELSE IF as_millis(instant - Head(queue).timestamp) >= LeewayMillis
       THEN pop_expired_at_leeway(Tail(queue), instant)
       ELSE queue

\* The `while let Some(item) = front_mut()` loop of PlayAlong::update.
RECURSIVE pop_expired(_, _)
pop_expired(queue, instant) ==
  IF queue = <<>> THEN queue
  ELSE IF as_millis(instant - Head(queue).timestamp) > LeewayMillis
       THEN pop_expired(Tail(queue), instant)
       ELSE queue

\* PlayAlong::update
PlayAlong_update(pa, instant) ==
  [pa EXCEPT !.user_pressed_recently = pop_expired(@, instant)]

\* Mutant of user_press_key: a key release withdraws the queued presses of
\* the key.
user_press_key_release_withdraws(pa, instant, note_id, active) ==
  IF active
  THEN [pa EXCEPT
          !.user_pressed_recently =
              Append(@, [timestamp |-> instant, note_id |-> note_id,
                         cleared |-> note_id \in pa.required_notes]),
          !.required_notes = @ \ {note_id}]
  ELSE [pa EXCEPT
          !.user_pressed_recently =
              SelectSeq(@, LAMBDA press : press.note_id # note_id)]

\* Mutant of user_press_key: the press is queued but the requirement stays.
user_press_key_keeps_requirement(pa, instant, note_id, active) ==
  IF active
  THEN [pa EXCEPT
          !.user_pressed_recently =
              Append(@, [timestamp |-> instant, note_id |-> note_id,
                         cleared |-> FALSE])]
  ELSE pa

\* PlayAlong::user_press_key.  `cleared` is a history field of the queued
\* press: whether this key-down removed a requirement when it was recorded.
user_press_key(pa, instant, note_id, active) ==
  IF active
  THEN [pa EXCEPT
          !.user_pressed_recently =
              Append(@, [timestamp |-> instant, note_id |-> note_id,
                         cleared |-> note_id \in pa.required_notes]),
          !.required_notes = @ \ {note_id}]
  ELSE pa

\* Mutant of find: the index of the last queued press of note_id.
find_last(queue, note_id) ==
  LET hits == {i \in DOMAIN queue : queue[i].note_id = note_id}
  IN IF hits = {} THEN 0 ELSE CHOOSE i \in hits : \A j \in hits : i >= j

\* iter().enumerate().find(|(_, item)| item.note_id == note_id): the index of
\* the first queued press of note_id, 0 when there is none.
find(queue, note_id) ==
  LET hits == {i \in DOMAIN queue : queue[i].note_id = note_id}
  IN IF hits = {} THEN 0 ELSE CHOOSE i \in hits : \A j \in hits : i <= j

\* VecDeque::remove(id)
remove(queue, id) ==
  [i \in 1..(Len(queue) - 1) |-> IF i < id THEN queue[i] ELSE queue[i + 1]]

\* Mutant of file_press_key: a note-off leaves the requirement in place.
file_press_key_ignores_off(pa, note_id, active) ==
  IF active
  THEN LET id == find(pa.user_pressed_recently, note_id)
       IN IF id # 0
          THEN [pa EXCEPT !.user_pressed_recently = remove(@, id),
                          !.consumed = Append(@, pa.user_pressed_recently[id])]
          ELSE [pa EXCEPT !.required_notes = @ \cup {note_id}]
  ELSE pa

\* Mutant of file_press_key: a matched press is left in the queue.
file_press_key_keeps_press(pa, note_id, active) ==
  IF active
  THEN LET id == find(pa.user_pressed_recently, note_id)
       IN IF id # 0
          THEN [pa EXCEPT !.consumed = Append(@, pa.user_pressed_recently[id])]
          ELSE [pa EXCEPT !.required_notes = @ \cup {note_id}]
  ELSE [pa EXCEPT !.required_notes = @ \ {note_id}]

\* PlayAlong::file_press_key
file_press_key(pa, note_id, active) ==
  IF active
  THEN LET id == find(pa.user_pressed_recently, note_id)
       IN IF id # 0
          THEN [pa EXCEPT !.user_pressed_recently = remove(@, id),
                          !.consumed = Append(@, pa.user_pressed_recently[id])]
          ELSE [pa EXCEPT !.required_notes = @ \cup {note_id}]
  ELSE [pa EXCEPT !.required_notes = @ \ {note_id}]

\* Mutant of press_key: the keyboard range is not consulted.
press_key_unfiltered(pa, instant, src, note_id, active) ==
  IF src = "User"
  THEN user_press_key(pa, instant, note_id, active)
  ELSE file_press_key(pa, note_id, active)

\* PlayAlong::press_key
press_key(pa, instant, src, note_id, active) ==
  IF ~contains(user_keyboard_range, note_id)
  THEN pa
  ELSE IF src = "User"
       THEN user_press_key(pa, instant, note_id, active)
       ELSE file_press_key(pa, note_id, active)

\* Mutant of are_required_keys_pressed: never stalls.
are_required_keys_pressed_always(pa) == TRUE

\* PlayAlong::are_required_keys_pressed
are_required_keys_pressed(pa) == pa.required_notes = {}

\* ------------------------------------------------------------ PlaybackState

\* Number of events of the track scheduled before `time`: the cursor position
\* found by a rescan from the start.
events_before(time) ==
  Cardinality({i \in DOMAIN Track : Track[i].timestamp < time})

\* The events after the cursor that are scheduled before `time`, taken in
\* sequence order up to the first one that is not.
crossed(seen, time) ==
  {i \in DOMAIN Track :
     i > seen /\ \A j \in (seen + 1)..i : Track[j].timestamp < time}

\* PlaybackState::new
Playback_new(paused) ==
  [ running |-> 0, is_paused |-> paused, seen_events |-> 0 ]

\* PlaybackState::update (advance): the new state and the indices of the
\* events crossed, in track order.
Playback_update(pb, elapsed) ==
  IF pb.is_paused
  THEN [ state |-> pb, events |-> <<>> ]
  ELSE LET time == pb.running + elapsed
           n == Cardinality(crossed(pb.seen_events, time))
       IN [ state  |-> [pb EXCEPT !.running = time, !.seen_events = @ + n],
            events |-> [i \in 1..n |-> pb.seen_events + i] ]

\* PlaybackState::set_time (seek)
Playback_set_time(pb, time) ==
  [pb EXCEPT !.running = Max(time, 0), !.seen_events = events_before(Max(time, 0))]

\* PlaybackState::pause / resume
Playback_pause(pb) == [pb EXCEPT !.is_paused = TRUE]
Playback_resume(pb) == [pb EXCEPT !.is_paused = FALSE]

\* PlaybackState::lenght: the final offset of the event sequence.
Playback_lenght == Track[Len(Track)].timestamp

\* --------------------------------------------------------------- MidiPlayer

\* `(speed_multiplier * 10.0) as u32`, the multiplier given in hundredths: the
\* cast truncates toward zero and saturates at 0.
speed_factor(speed) == IF speed < 0 THEN 0 ELSE (speed * SpeedBuckets) \div 100

\* `(delta / 10) * (speed_multiplier * 10.0) as u32`
scaled_elapsed(delta, speed) == (delta \div SpeedBuckets) * speed_factor(speed)

\* Mutant of feed_event: percussion events are fed to PlayAlong as well.
feed_event_tracks_percussion(pa, instant, event) ==
  IF event.message = "NoteOn"
  THEN press_key(pa, instant, "File", event.key, TRUE)
  ELSE IF event.message = "NoteOff"
       THEN press_key(pa, instant, "File", event.key, FALSE)
  ELSE pa

\* The body of the `events.iter().for_each` closure that follows midi_event():
\* what one event does to PlayAlong.
feed_event(pa, instant, event) ==
  IF event.channel = Percussion THEN pa
  ELSE IF event.message = "NoteOn"
       THEN press_key(pa, instant, "File", event.key, TRUE)
  ELSE IF event.message = "NoteOff"
       THEN press_key(pa, instant, "File", event.key, FALSE)
  ELSE pa

RECURSIVE feed_events(_, _, _)
feed_events(pa, instant, events) ==
  IF events = <<>> THEN pa
  ELSE feed_events(feed_event(pa, instant, Track[Head(events)]), instant,
                   Tail(events))

\* Mutant of forward: the percussion early return precedes midi_event().
forward_skips_percussion(events) ==
  LET kept == SelectSeq(events, LAMBDA e : Track[e].channel # Percussion)
  IN [i \in DOMAIN kept |-> [call |-> "midi_event", event |-> kept[i]]]

\* output_manager.midi_event(event) for each event, in iteration order.
forward(events) == [i \in DOMAIN events |-> [call |-> "midi_event", event |-> events[i]]]

\* Mutant of update_result: the events are returned while paused too.
update_result_always_some(pb, events) == [kind |-> "Some", events |-> events]

\* The value MidiPlayer::update returns.
update_result(pb, events) ==
  IF pb.is_paused THEN [kind |-> "None", events |-> <<>>]
  ELSE [kind |-> "Some", events |-> events]

\* Mutant of MidiPlayer::update: the expiry sweep runs after the tick's events
\* have been fed to PlayAlong.
MidiPlayer_update_sweeps_last(pb, pa, instant, speed, delta) ==
  LET elapsed == scaled_elapsed(delta, speed)
      adv == Playback_update(pb, elapsed)
  IN [ playback   |-> adv.state,
       play_along |-> PlayAlong_update(feed_events(pa, instant, adv.events),
                                       instant),
       sink       |-> forward(adv.events),
       ret        |-> update_result(adv.state, adv.events) ]

\* MidiPlayer::update
MidiPlayer_update(pb, pa, instant, speed, delta) ==
  LET pa1 == PlayAlong_update(pa, instant)
      elapsed == scaled_elapsed(delta, speed)
      adv == Playback_update(pb, elapsed)
  IN [ playback   |-> adv.state,
       play_along |-> feed_events(pa1, instant, adv.events),
       sink       |-> forward(adv.events),
       ret        |-> update_result(adv.state, adv.events) ]

\* Mutant of clear: the sink is not told to stop.
clear_nothing == << >>

\* MidiPlayer::clear
clear == << [call |-> "stop_all", event |-> 0] >>

\* MidiPlayer::pause
MidiPlayer_pause(pb) == [ sink |-> clear, playback |-> Playback_pause(pb) ]

\* Mutant of set_time: the clock is not repositioned.
MidiPlayer_set_time_no_seek(pb, pa, time) ==
  LET adv == Playback_update(pb, 0)
  IN [ playback |-> adv.state, play_along |-> pa, discarded |-> adv.events,
       sink |-> clear ]

\* Mutant of set_time: the seek starts PlayAlong afresh.
MidiPlayer_set_time_resets_play_along(pb, pa, time) ==
  LET adv == Playback_update(Playback_set_time(pb, time), 0)
  IN [ playback |-> adv.state, play_along |-> PlayAlong_new,
       discarded |-> adv.events, sink |-> clear ]

\* MidiPlayer::set_time: seek, discard-advance, clear.  `discarded` is what
\* the discard-advance returned; it is dropped, so PlayAlong is handed
\* nothing.
MidiPlayer_set_time(pb, pa, time) ==
  LET adv == Playback_update(Playback_set_time(pb, time), 0)
  IN [ playback |-> adv.state, play_along |-> pa, discarded |-> adv.events,
       sink |-> clear ]

\* `-delta` on the signed integer: the negation of the least value does not
\* fit.  With overflow checks the program panics there, without them the
\* result wraps around to the least value again.
neg_overflows(delta) == delta = MinDelta
wrapping_neg(delta) == IF neg_overflows(delta) THEN delta ELSE -delta

\* `x as u64` on the signed integer: the same bits read as unsigned.
as_u64(x) == IF x < 0 THEN x + 2 ^ DeltaBits ELSE x

\* The target time MidiPlayer::rewind computes (delta in milliseconds):
\* time.saturating_sub(from_millis((-delta) as u64)) for a negative delta,
\* time.saturating_add(from_millis(delta as u64)) otherwise.
rewind_time(time, delta) ==
  IF delta < 0
  THEN Max(0, time - as_u64(wrapping_neg(delta)) * NanosPerMilli)
  ELSE time + as_u64(delta) * NanosPerMilli

\* The target time MidiPlayer::set_percentage_time computes (p in percent):
\* `(p * lenght).max(0.0)`, the f32 product taken to the precision of a
\* hundredth of the length.
percentage_time(p) == Max(0, p * (Playback_lenght \div 100))

\* ------------------------------------------------------------ state machine

Unit == [kind |-> "Unit", events |-> <<>>]

Called(op, src, note_id, active, delta, speed) ==
  [ op |-> op, src |-> src, note_id |-> note_id, active |-> active,
    delta |-> delta, speed |-> speed ]

Call(op, src, note_id, active) == Called(op, src, note_id, active, 0, 0)

\* The PlayAlong an operation starts from: the history of consumed presses
\* covers one operation.
Entering(pa) == [pa EXCEPT !.consumed = <<>>]

\* MidiPlayer::new ends with update(target, Duration::ZERO): nothing is
\* crossed at time zero and the queue is empty.
Init ==
  /\ now = 0
  /\ playback \in {Playback_new(p) : p \in BOOLEAN}
  /\ play_along = PlayAlong_new
  /\ sink = <<>>
  /\ delivered = <<>>
  /\ times_forwarded = [e \in DOMAIN Track |-> 0]
  /\ ret = Unit
  /\ last_call = Call("new", "", 0, FALSE)
  /\ seeks = 0
  /\ alive = TRUE

\* Wall-clock time passes between two calls.
Tick(d) ==
  /\ alive
  /\ now + d <= MaxNowMillis * TicksPerMilli
  /\ now' = now + d
  /\ UNCHANGED << playback, play_along, sink, delivered, times_forwarded, ret,
                  last_call, seeks, alive >>

\* The events among the calls the sink received.
forwarded(calls) ==
  LET events == SelectSeq(calls, LAMBDA c : c.call = "midi_event")
  IN [i \in DOMAIN events |-> events[i].event]

Update(delta, speed) ==
  /\ alive
  /\ playback.running + scaled_elapsed(delta, speed)
       <= MaxRunningMillis * NanosPerMilli
  /\ \E r \in {MidiPlayer_update(playback, Entering(play_along), now, speed, delta)} :
        /\ playback' = r.playback
        /\ play_along' = r.play_along
        /\ sink' = r.sink
        /\ ret' = r.ret
  /\ delivered' = delivered \o forwarded(sink')
  /\ times_forwarded' =
        [e \in DOMAIN Track |->
           times_forwarded[e]
             + Cardinality({i \in DOMAIN sink' :
                  sink'[i].call = "midi_event" /\ sink'[i].event = e})]
  /\ last_call' = Called("update", "", 0, FALSE, delta, speed)
  /\ UNCHANGED << now, seeks, alive >>

\* play_along_mut().press_key(src, note_id, active)
PressKeyWithin(limit, src, note_id, active) ==
  /\ alive
  /\ (src = "User" /\ active /\ contains(user_keyboard_range, note_id))
       => Len(play_along.user_pressed_recently) < limit
  /\ play_along' = press_key(Entering(play_along), now, src, note_id, active)
  /\ sink' = <<>>
  /\ ret' = Unit
  /\ last_call' = Call("press_key", src, note_id, active)
  /\ UNCHANGED << now, playback, delivered, times_forwarded, seeks, alive >>

Pause ==
  /\ alive
  /\ LET r == MidiPlayer_pause(playback)
     IN playback' = r.playback /\ sink' = r.sink
  /\ ret' = Unit
  /\ last_call' = Call("pause", "", 0, FALSE)
  /\ UNCHANGED << now, play_along, delivered, times_forwarded, seeks, alive >>

\* MidiPlayer::resume, also reached through MidiPlayer::start
Resume ==
  /\ alive
  /\ playback' = Playback_resume(playback)
  /\ sink' = <<>>
  /\ ret' = Unit
  /\ last_call' = Call("resume", "", 0, FALSE)
  /\ UNCHANGED << now, play_along, delivered, times_forwarded, seeks, alive >>

\* MidiPlayer::pause_resume
PauseResume ==
  /\ alive
  /\ IF playback.is_paused
     THEN playback' = Playback_resume(playback) /\ sink' = <<>>
     ELSE LET r == MidiPlayer_pause(playback)
          IN playback' = r.playback /\ sink' = r.sink
  /\ ret' = Unit
  /\ last_call' = Call("pause_resume", "", 0, FALSE)
  /\ UNCHANGED << now, play_along, delivered, times_forwarded, seeks, alive >>

SetTime(op, time) ==
  /\ alive
  /\ seeks < MaxSeeks
  /\ \E r \in {MidiPlayer_set_time(playback, play_along, time)} :
        /\ playback' = r.playback
        /\ play_along' = r.play_along
        /\ sink' = r.sink
        /\ ret' = [kind |-> "Discarded", events |-> r.discarded]
  /\ seeks' = seeks + 1
  /\ last_call' = Call(op, "", 0, FALSE)
  /\ delivered' = <<>>
  /\ UNCHANGED << now, times_forwarded, alive >>

Rewind(delta) == SetTime("rewind", rewind_time(playback.running, delta))

\* A call that panics before it reaches set_time: the player is not used
\* again.  The unwinding may drop the player (stop_all) or the process may
\* abort at once.
Panic(op) ==
  /\ alive
  /\ alive' = FALSE
  /\ sink' \in {<<>>, clear}
  /\ ret' = [kind |-> "Panic", events |-> <<>>]
  /\ last_call' = Call(op, "", 0, FALSE)
  /\ UNCHANGED << now, playback, play_along, delivered, times_forwarded, seeks >>

\* MidiPlayer::rewind built with overflow checks, called with a delta whose
\* negation overflows: `-delta` panics.
RewindOverflow(delta) ==
  /\ delta < 0
  /\ neg_overflows(delta)
  /\ Panic("rewind_overflow")

SetPercentageTime(p) == SetTime("set_percentage_time", percentage_time(p))

\* MidiPlayer::set_percentage_time with a p whose product with the length is
\* more than a Duration holds (p = f32::INFINITY, or a finite p that large):
\* `.max(0.0)` leaves the product as it is and Duration::from_secs_f32 panics.
SetPercentageTimeOverflow ==
  /\ Playback_lenght > 0
  /\ Panic("set_percentage_time_overflow")

PressKey(src, note_id, active) == PressKeyWithin(MaxQueue, src, note_id, active)

\* Drop for MidiPlayer
Drop ==
  /\ alive
  /\ alive' = FALSE
  /\ sink' = clear
  /\ ret' = Unit
  /\ last_call' = Call("drop", "", 0, FALSE)
  /\ UNCHANGED << now, playback, play_along, delivered, times_forwarded, seeks >>

Next ==
  \/ \E d \in TickDeltas : Tick(d)
  \/ \E f \in Frames : Update(f.delta, f.speed)
  \/ \E src \in {"File", "User"}, n \in NoteIds, a \in BOOLEAN : PressKey(src, n, a)
  \/ Pause
  \/ Resume
  \/ PauseResume
  \/ \E d \in RewindDeltas : Rewind(d)
  \/ \E d \in {MinDelta} : Rewind(d) \/ RewindOverflow(d)
  \/ \E p \in Percentages : SetPercentageTime(p)
  \/ SetPercentageTimeOverflow
  \/ Drop

Spec == Init /\ [][Next]_vars

\* Play-along sessions: the song plays at speed 1.0 from the start, without
\* pauses or seeks, while wall-clock time passes and keys are pressed.
InitPlayAlong == Init /\ ~playback.is_paused

NextPlayAlong ==
  \/ \E d \in TickDeltas : Tick(d)
  \/ \E f \in {g \in Frames : g.speed = 100} : Update(f.delta, f.speed)
  \/ \E src \in {"File", "User"}, n \in NoteIds, a \in BOOLEAN : PressKey(src, n, a)

SpecPlayAlong == InitPlayAlong /\ [][NextPlayAlong]_vars

\* Transport sessions: every operation of the player at every speed, the user
\* pressing keys, within one instant of the wall clock.
NextPlayer ==
  \/ \E f \in Frames : Update(f.delta, f.speed)
  \/ \E n \in NoteIds, a \in BOOLEAN : PressKeyWithin(MaxHeld, "User", n, a)
  \/ Pause
  \/ Resume
  \/ PauseResume
  \/ \E d \in RewindDeltas : Rewind(d)
  \/ \E p \in Percentages : SetPercentageTime(p)
  \/ Drop

SpecPlayer == Init /\ [][NextPlayer]_vars

\* Seeking sessions: the song is played, paused and resumed, and a seek is
\* made with any argument of its type, the extreme ones included.
RewindArgs == RewindDeltas \cup {MinDelta}
PercentageArgs == Percentages \cup {0}

NextSeek ==
  \/ \E f \in Frames : Update(f.delta, f.speed)
  \/ PauseResume
  \/ \E d \in RewindArgs : Rewind(d)
  \/ \E d \in RewindArgs : RewindOverflow(d)
  \/ \E p \in PercentageArgs : SetPercentageTime(p)
  \/ SetPercentageTimeOverflow

SpecSeek == Init /\ [][NextSeek]_vars

\* ------------------------------------------------------------------ claims

required == play_along.required_notes
queue == play_along.user_pressed_recently
InRange(n) == contains(user_keyboard_range, n)

\* The queued presses of note n.
Queued(q, n) == {i \in DOMAIN q : q[i].note_id = n}

\* Age of a press in whole milliseconds, as PlayAlong::update measures it.
AgeMillis(press) == as_millis(now - press.timestamp)

\* A step of MidiPlayer::update: the only operation that records "update",
\* during which no wall-clock time passes.
UpdateStep == last_call'.op = "update" /\ now' = now

FileOn(n) == Call("press_key", "File", n, TRUE)
UserOn(n) == Call("press_key", "User", n, TRUE)

\* C1: one user key-down satisfies at most one file note-on: a press that
\* cleared a requirement when it was made is never afterwards consumed by a
\* file note-on (which would suppress a second requirement).
C1_NoDoubleCredit ==
  \A i \in DOMAIN play_along.consumed : ~play_along.consumed[i].cleared

\* C2: no note is at once required and the note of a queued user press.
C2_RequiredQueuedDisjoint ==
  \A i \in DOMAIN queue : queue[i].note_id \notin required

\* A user press has cleared a requirement and is still queued, while another
\* note is still required.
C2_Witness ==
  /\ \E i \in DOMAIN queue : queue[i].cleared
  /\ required # {}

\* C3 as stated: once a file note-on for n has consumed a user press made at
\* most 500ms before, n is not required, and the next file note-on for n, no
\* user press intervening, makes n required.
C3_Original ==
  [][ \A n \in NoteIds :
        ( /\ last_call = FileOn(n)
          /\ last_call' = FileOn(n)
          /\ play_along.consumed # <<>>
          /\ AgeMillis(play_along.consumed[1]) <= LeewayMillis
          /\ PressKey("File", n, TRUE) )
        => (n \notin required /\ n \in required') ]_vars

\* C3 as amended: a file note-on for an in-range n that finds a queued press
\* of n leaves n not required and removes exactly one press of n from the
\* queue; the next file note-on for n, no user press intervening, makes n
\* required exactly when no other press of n is still queued, and consumes
\* the next queued press of n otherwise.
C3_EarlyPress ==
  [][ \A n \in NoteIds :
        /\ ( /\ last_call' = FileOn(n)
             /\ InRange(n)
             /\ Queued(queue, n) # {}
             /\ PressKey("File", n, TRUE) )
           => /\ n \notin required'
              /\ Len(queue') = Len(queue) - 1
              /\ Cardinality(Queued(queue', n)) = Cardinality(Queued(queue, n)) - 1
              /\ \A m \in NoteIds \ {n} :
                   Cardinality(Queued(queue', m)) = Cardinality(Queued(queue, m))
              /\ Len(play_along'.consumed) = 1
              /\ play_along'.consumed[1].note_id = n
        /\ ( /\ last_call = FileOn(n)
             /\ last_call' = FileOn(n)
             /\ play_along.consumed # <<>>
             /\ PressKey("File", n, TRUE) )
           => /\ n \notin required
              /\ (n \in required') = (Queued(queue, n) = {})
              /\ (play_along'.consumed # <<>>) = (Queued(queue, n) # {}) ]_vars

\* A file note-on for 60 has just consumed the only queued press of 60, made
\* within the last 500ms.
C3_Witness ==
  /\ last_call = FileOn(60)
  /\ play_along.consumed # <<>>
  /\ AgeMillis(play_along.consumed[1]) <= LeewayMillis
  /\ Queued(queue, 60) = {}
  /\ 60 \notin required

\* C4: a file note-on for an in-range n with no queued press of n makes n
\* required and are_required_keys_pressed() false; a following user key-down
\* of n removes n, and are_required_keys_pressed() is then true exactly when
\* no other note was required.
C4_LatePress ==
  [][ \A n \in NoteIds :
        /\ ( /\ last_call' = FileOn(n)
             /\ InRange(n)
             /\ Queued(queue, n) = {}
             /\ PressKey("File", n, TRUE) )
           => /\ required' = required \cup {n}
              /\ ~are_required_keys_pressed(play_along')
              /\ queue' = queue
        /\ ( /\ last_call' = UserOn(n)
             /\ InRange(n)
             /\ n \in required
             /\ PressKey("User", n, TRUE) )
           => /\ required' = required \ {n}
              /\ are_required_keys_pressed(play_along') = (required \ {n} = {})
      ]_vars

\* The user has just pressed 60 late: the press cleared the requirement and
\* nothing else is owed.
C4_Witness ==
  /\ last_call = UserOn(60)
  /\ queue # <<>>
  /\ queue[Len(queue)].cleared
  /\ are_required_keys_pressed(play_along)

\* The last message of the tick's events for key n among those PlayAlong
\* tracks ("" when there is none).
RECURSIVE LastMessage(_, _)
LastMessage(events, n) ==
  IF events = <<>> THEN ""
  ELSE LET e == Track[events[Len(events)]]
       IN IF e.channel # Percussion /\ e.key = n
             /\ e.message \in {"NoteOn", "NoteOff"}
          THEN e.message
          ELSE LastMessage(SubSeq(events, 1, Len(events) - 1), n)

C10_RangeFilter ==
  [][ \A src \in {"File", "User"}, n \in NoteIds, a \in BOOLEAN :
        (~InRange(n) /\ last_call' = Call("press_key", src, n, a)
           /\ PressKey(src, n, a))
        => (required' = required /\ queue' = queue) ]_vars

\* An out-of-range key-down arrived while a press was queued and a note
\* required.
C10_Witness ==
  /\ last_call = UserOn(20)
  /\ queue # <<>>
  /\ required # {}

\* The operations that must flush the sink: pause (also through
\* pause_resume), the seeks, and the teardown.
Flushed ==
  \/ last_call.op \in {"pause", "rewind", "set_percentage_time", "drop"}
  \/ last_call.op = "pause_resume" /\ playback.is_paused

\* C6: every pause, every seek and the teardown issue stop_all to the sink,
\* and the operation forwards no midi_event: the sink receives the stop_all
\* and no event, and PlayAlong is handed nothing.
C6_StopAllFlush ==
  [][ Flushed'
      => /\ \E i \in DOMAIN sink' : sink'[i].call = "stop_all"
         /\ \A i \in DOMAIN sink' : sink'[i].call # "midi_event"
         /\ delivered' \in {delivered, <<>>}
         /\ times_forwarded' = times_forwarded
         /\ play_along' = play_along ]_vars

\* A backward seek after the first notes have sounded: the sink was told to
\* stop, and the clock stands before events it has already delivered.
C6_Witness ==
  /\ last_call.op = "rewind"
  /\ sink # <<>>
  /\ \E e \in DOMAIN Track :
       times_forwarded[e] > 0 /\ Track[e].timestamp >= playback.running

\* C7: while paused, update leaves the playback time unchanged, forwards no
\* event to the sink, feeds no file event to PlayAlong and returns None; when
\* not paused it returns Some(events) and advances the time by the full scaled
\* elapsed value of the call, the first update after resume() included.
C7_PauseIdempotence ==
  [][ UpdateStep
        => /\ playback.is_paused
              => /\ playback' = playback
                 /\ sink' = <<>>
                 /\ delivered' = delivered
                 /\ required' = required
                 /\ play_along'.consumed = <<>>
                 /\ ret'.kind = "None"
           /\ ~playback.is_paused
              => /\ ret'.kind = "Some"
                 /\ ret'.events = forwarded(sink')
                 /\ playback'.running
                      = playback.running
                          + scaled_elapsed(last_call'.delta, last_call'.speed)
    ]_vars

\* An update was called while paused in the middle of the song, with a note
\* still required.
C7_Witness ==
  /\ last_call.op = "update"
  /\ ret.kind = "None"
  /\ playback.running > 0
  /\ required # {}

\* The events scheduled in [from, to), in track order.
Between(from, to) ==
  LET hit == {e \in DOMAIN Track :
                from <= Track[e].timestamp /\ Track[e].timestamp < to}
  IN SelectSeq([e \in DOMAIN Track |-> e], LAMBDA e : e \in hit)

\* C8: without seeks, the events forwarded to the sink are exactly the events
\* scheduled before the current playback time, each once, in track (hence
\* ascending offset) order; no event at or beyond the playback time has been
\* forwarded.
C8_MonotonicDelivery ==
  seeks = 0
  => /\ delivered = Between(0, playback.running)
     /\ \A i, j \in DOMAIN delivered :
          i < j => /\ delivered[i] < delivered[j]
                   /\ Track[delivered[i]].timestamp <= Track[delivered[j]].timestamp
     /\ \A e \in DOMAIN Track :
          times_forwarded[e]
            = IF Track[e].timestamp < playback.running THEN 1 ELSE 0

\* The whole track has been played without a seek, over several updates and
\* a pause.
C8_Witness ==
  /\ seeks = 0
  /\ Len(delivered) = Len(Track)
  /\ last_call.op = "update"
  /\ Len(sink) < Len(Track)

FileOff(n) == Call("press_key", "File", n, FALSE)

\* C11: a file note-off for an in-range n leaves n not required, whether or
\* not the user ever pressed n, keeps every other required note and leaves
\* the queue of user presses as it was.
C11_NoteOffClears ==
  [][ \A n \in NoteIds :
        (InRange(n) /\ last_call' = FileOff(n) /\ PressKey("File", n, FALSE))
        => /\ n \notin required'
           /\ required' = required \ {n}
           /\ \A m \in required : m # n => m \in required'
           /\ queue' = queue ]_vars

\* The note-off of 60 has arrived while the user had pressed nothing: 62 is
\* still required, 60 is not.
C11_Witness ==
  /\ last_call = FileOff(60)
  /\ queue = <<>>
  /\ now = 0
  /\ required = {62}

\* The note-on and note-off events among `events` that are not on the
\* percussion channel.
Tracked(events) ==
  SelectSeq(events, LAMBDA e : /\ Track[e].channel # Percussion
                               /\ Track[e].message \in {"NoteOn", "NoteOff"})

\* PlayAlong after File presses for `events`, in order.
RECURSIVE FilePresses(_, _, _)
FilePresses(pa, instant, events) ==
  IF events = <<>> THEN pa
  ELSE FilePresses(press_key(pa, instant, "File", Track[Head(events)].key,
                             Track[Head(events)].message = "NoteOn"),
                   instant, Tail(events))

\* C12: update forwards every event of the tick to the sink, percussion
\* (channel 9) included, and PlayAlong changes exactly as by a File press for
\* each note-on and note-off of the other channels, in order: events on
\* channel 9 change neither required_notes nor user_pressed_recently.
C12_PercussionExclusion ==
  [][ UpdateStep
      => /\ forwarded(sink') = ret'.events
         /\ \E swept \in {PlayAlong_update(Entering(play_along), now)} :
              /\ play_along' = FilePresses(swept, now, Tracked(ret'.events))
              /\ (Tracked(ret'.events) = <<>>) => play_along' = swept ]_vars

\* An update has forwarded the channel-9 note-on of 60 together with the
\* note-off of 60: 60 is neither required nor consumed from the queue.
C12_Witness ==
  /\ last_call.op = "update"
  /\ \E i \in DOMAIN sink : Track[sink[i].event].channel = Percussion
  /\ required = {62}
  /\ queue # <<>>
  /\ play_along.consumed = <<>>

\* C13: an update that is not paused advances the playback time by the
\* quantized delta (delta integer-divided into the coarse unit and
\* reconstituted) times the speed multiplier, for every multiplier >= 0,
\* multiples of 0.1 or not; at multiplier 1.0 the advance never exceeds delta.
\* The multiplier is in hundredths, so both sides are scaled by 100.
C13_SpeedScaling ==
  [][ (UpdateStep /\ ~playback.is_paused)
      => /\ (playback'.running - playback.running) * 100
              = (last_call'.delta \div SpeedBuckets) * SpeedBuckets
                  * last_call'.speed
         /\ last_call'.speed = 100
              => playback'.running - playback.running <= last_call'.delta
    ]_vars

\* C14: for every signed delta and every playback time, rewind(delta) seeks
\* to max(0, time + delta): the call completes and leaves the playback time
\* there, at 0 when delta is negative and larger in magnitude than the time.
C14_RewindSaturation ==
  [][ \A d \in RewindArgs :
        ( /\ last_call'.op \in {"rewind", "rewind_overflow"}
          /\ (Rewind(d) \/ RewindOverflow(d)) )
        => /\ alive'
           /\ playback'.running
                = Max(0, playback.running + d * NanosPerMilli)
           /\ (d < 0 /\ -d * NanosPerMilli > playback.running)
                => playback'.running = 0 ]_vars

\* C15: set_percentage_time(p) seeks to p times the total length, clamped
\* only from below: the call completes, for p <= 0 the playback time is 0,
\* for p > 1 it is beyond the length, and it is never negative.
C15_PercentageClamp ==
  [][ /\ \A p \in PercentageArgs :
           (last_call'.op = "set_percentage_time" /\ SetPercentageTime(p))
           => /\ playback'.running = Max(0, p * (Playback_lenght \div 100))
              /\ p <= 0 => playback'.running = 0
              /\ p > 100 => playback'.running > Playback_lenght
              /\ playback'.running >= 0
      /\ (last_call'.op = "set_percentage_time_overflow"
            /\ SetPercentageTimeOverflow)
         => /\ alive'
            /\ playback'.running > Playback_lenght
    ]_vars

\* The queued presses that are at most 500 (whole) milliseconds old.
Young(q) == SelectSeq(q, LAMBDA press : AgeMillis(press) <= LeewayMillis)

UserOff(n) == Call("press_key", "User", n, FALSE)

\* C18: a user key release, for any n, changes neither required_notes nor
\* user_pressed_recently: it neither re-creates a requirement nor withdraws
\* a queued press.
C18_ReleaseNoOp ==
  [][ \A n \in NoteIds :
        (last_call' = UserOff(n) /\ PressKey("User", n, FALSE))
        => (required' = required /\ queue' = queue) ]_vars

\* The user has released 60 while the press of 60 was queued, having cleared
\* the requirement of 60, and 62 was still required.
C18_Witness ==
  /\ last_call = UserOff(60)
  /\ \E i \in DOMAIN queue : queue[i].note_id = 60 /\ queue[i].cleared
  /\ required = {62}

\* C19: the seeks, pause, resume and pause_resume leave required_notes and
\* user_pressed_recently as they were; a required note stops being required
\* only by a user key-down of it or by an update that delivers a file
\* note-off of it, so a requirement made before a seek outlives the seek even
\* when the new position lies past the note-off.
C19_SeekKeepsRequirements ==
  [][ /\ last_call'.op \in {"rewind", "set_percentage_time", "pause",
                            "resume", "pause_resume"}
         => (required' = required /\ queue' = queue)
      /\ \A n \in NoteIds :
           (n \in required /\ n \notin required')
           => \/ last_call' = UserOn(n)
              \/ /\ UpdateStep
                 /\ \E i \in DOMAIN sink' :
                      /\ sink'[i].call = "midi_event"
                      /\ Track[sink'[i].event].message = "NoteOff"
                      /\ Track[sink'[i].event].key = n
                      /\ Track[sink'[i].event].channel # Percussion ]_vars

\* A seek has jumped past the note-off of 62 while 62 was required and a
\* press of 60 was queued: both are as they were.
C19_Witness ==
  /\ last_call.op = "set_percentage_time"
  /\ 62 \in required
  /\ queue # <<>>
  /\ \E e \in DOMAIN Track :
       /\ Track[e].message = "NoteOff"
       /\ Track[e].key = 62
       /\ Track[e].timestamp < playback.running
       /\ times_forwarded[e] = 0

====
